---- MODULE Spec2Model ----
(***************************************************************************)
(* Model of the LinkedIn extraction pipeline:                              *)
(*   mutual_connections.py  (get_mutual_connections, _launch_browser,      *)
(*                           parse_output, parse_enrich_output)            *)
(*   company_people.py      (get_company_people, parse_output)             *)
(*                                                                         *)
(* Text is modelled as a sequence of symbols (a symbol is a run of         *)
(* characters with no inner structure the code looks at), JSON values as   *)
(* tagged records, and the agent's raw output as a sequence of tokens.     *)
(***************************************************************************)
EXTENDS Integers, Sequences, FiniteSets, TLC

(***************************************************************************)
(* Bounds of the model.                                                    *)
(***************************************************************************)
\* longest candidate record list enumerated for the parsers alone
MaxRecs == 3
\* longest candidate record list an agent returns inside a whole run
MaxRunRecs == 2
\* number of ephemeral ports the OS may hand out
NumPorts == 2

(***************************************************************************)
(* JSON values.  t is the JSON type, s the text of a string value.         *)
(***************************************************************************)
ABSENT == [t |-> "absent", s |-> <<>>]
NULL == [t |-> "null", s |-> <<>>]
Str(s) == [t |-> "str", s |-> s]
\* a number, d its decimal text as one symbol
Num(d) == [t |-> "num", s |-> <<d>>]
\* a JSON object, keys the keys it holds
Obj(keys) == [t |-> "obj", s |-> keys]

\* Python truthiness of a value obtained with dict.get (absent reads as None)
Truthy(v) ==
    \/ v.t = "str" /\ v.s # <<>>
    \/ v.t = "num" /\ v.s # <<"0">>
    \/ v.t = "obj" /\ v.s # <<>>

\* s contains pat as a contiguous run of symbols (Python's `pat in s`)
Contains(s, pat) ==
    \E i \in 1..(Len(s) - Len(pat) + 1) : SubSeq(s, i, i + Len(pat) - 1) = pat

(***************************************************************************)
(* Profile URL normalisation: re.search(r"/in/([^/?#]+)", url)             *)
(***************************************************************************)
Delims == {"/", "?", "#"}

\* positions where "/in/" followed by at least one non-delimiter starts
InMatches(url) ==
    {i \in 1..(Len(url) - 3) :
        /\ url[i] = "/" /\ url[i + 1] = "in" /\ url[i + 2] = "/"
        /\ url[i + 3] \notin Delims}

Min(S) == CHOOSE x \in S : \A y \in S : x <= y

\* the greedy run of non-delimiters from position i on
RECURSIVE RunFrom(_, _)
RunFrom(url, i) ==
    IF i > Len(url) \/ url[i] \in Delims THEN <<>>
    ELSE <<url[i]>> \o RunFrom(url, i + 1)

\* group(1) of the leftmost match
InGroup(url) == RunFrom(url, Min(InMatches(url)) + 3)

CanonPrefix == <<"https:", "/", "/", "www.", "linkedin.com", "/", "in", "/">>

\* a rewrite that keeps an identifier the agent supplied
NormaliseKeepAgentId(p) ==
    LET url == IF p.linkedin_url.t = "absent" THEN <<>> ELSE p.linkedin_url.s
    IN IF InMatches(url) # {}
       THEN [p EXCEPT !.linkedin_id = IF Truthy(p.linkedin_id) THEN p.linkedin_id
                                      ELSE Str(InGroup(url)),
                      !.linkedin_url = Str(CanonPrefix \o InGroup(url))]
       ELSE p

\* a rewrite that clears the identifier when the url holds no /in/<id>
NormaliseClearing(p) ==
    LET url == IF p.linkedin_url.t = "absent" THEN <<>> ELSE p.linkedin_url.s
    IN IF InMatches(url) # {}
       THEN [p EXCEPT !.linkedin_id = Str(InGroup(url)),
                      !.linkedin_url = Str(CanonPrefix \o InGroup(url))]
       ELSE [p EXCEPT !.linkedin_id = ABSENT]
\* lines 139-143 (102-106 in company_people): rewrite id and url from the url
Normalise(p) ==
    LET url == IF p.linkedin_url.t = "absent" THEN <<>> ELSE p.linkedin_url.s
    IN IF InMatches(url) # {}
       THEN [p EXCEPT !.linkedin_id = Str(InGroup(url)),
                      !.linkedin_url = Str(CanonPrefix \o InGroup(url))]
       ELSE p

\* re.search raises TypeError when linkedin_url is present and not a string
UrlRaises(p) == p.linkedin_url.t \notin {"absent", "str"}

\* uid = p.get("linkedin_id") or p.get("name")
IdentityKey(p) == IF Truthy(p.linkedin_id) THEN p.linkedin_id ELSE p.name

(***************************************************************************)
(* Degree filter of company_people.parse_output:                           *)
(*   "2nd" not in str(p.get("connection_degree", "2nd"))  -> skip          *)
(***************************************************************************)
\* str(value) for the values of the model
PyStr(v) ==
    CASE v.t = "str" -> v.s
      [] v.t = "null" -> <<"None">>
      [] v.t = "num" -> v.s
      [] OTHER -> <<>>

DegreeText(p) ==
    IF p.connection_degree.t = "absent" THEN <<"2nd">> ELSE PyStr(p.connection_degree)

\* a filter that lets every record through
PassesDegreeAlways(p) == TRUE
PassesDegree(p) == Contains(DegreeText(p), <<"2nd">>)

(***************************************************************************)
(* The agent's raw text and the JSON object found in it.                   *)
(*   re.search(r'\{[\s\S]*\}', raw) ; json.loads(match.group())            *)
(* A raw text is a sequence of tokens: prose ("txt"), an opening brace     *)
(* ("lb"), a closing brace ("rb") and the member list of an object         *)
(* ("body", with the members it denotes in p).                             *)
(***************************************************************************)
Positions(raw, kind) == {i \in 1..Len(raw) : raw[i].k = kind}

Max(S) == CHOOSE x \in S : \A y \in S : x >= y

\* the greedy span: from the first "{" to the last "}" after it
HasSpan(raw) ==
    /\ Positions(raw, "lb") # {}
    /\ \E j \in Positions(raw, "rb") : j > Min(Positions(raw, "lb"))

SpanFirst(raw) == Min(Positions(raw, "lb"))
SpanLast(raw) == Max(Positions(raw, "rb"))
Span(raw) == SubSeq(raw, SpanFirst(raw), SpanLast(raw))

\* "nomatch": no span; "bad": json.loads raises JSONDecodeError;
\* "empty": the span is {} ; "ok": the span is one object
JsonKind(raw) ==
    IF ~HasSpan(raw) THEN "nomatch"
    ELSE IF Len(Span(raw)) = 2 THEN "empty"
    ELSE IF Len(Span(raw)) = 3 /\ Span(raw)[2].k = "body" THEN "ok"
    ELSE "bad"

JsonBody(raw) == Span(raw)[2].p

(***************************************************************************)
(* Candidate records and the top-level object of a primary output.         *)
(***************************************************************************)
Rec(name, url, id, degree) ==
    [obj |-> TRUE, name |-> name, linkedin_url |-> url, linkedin_id |-> id,
     connection_degree |-> degree, crm |-> FALSE, latest_experience |-> ABSENT]

\* a list entry that is not a JSON object (a string, a number)
NotObject == [Rec(ABSENT, ABSENT, ABSENT, ABSENT) EXCEPT !.obj = FALSE]

\* the value under "mutual_connections" / "people"
ListOf(items) == [t |-> "list", items |-> items]
NoList(t) == [t |-> t, items |-> <<>>]

\* members: the record list, the agent-reported total (mutual_count /
\* total_employees_visible) and whether an "error" key exists
Payload(list, reported, error_key) ==
    [list |-> list, reported |-> reported, error_key |-> error_key]

EmptyPayload == Payload(NoList("absent"), ABSENT, FALSE)

\* for p in data.get(key, []): absent iterates nothing, null or a number raises
ListRaises(list) == list.t \in {"null", "num"}

(***************************************************************************)
(* mutual_connections.parse_output, lines 136-147: the dedup loop          *)
(***************************************************************************)
IsNew(uid, seen) == uid \notin seen

LoopResult(exc, clean) == [exc |-> exc, clean |-> clean]

RECURSIVE MutualLoop(_, _, _)
MutualLoop(items, seen, clean) ==
    IF items = <<>> THEN LoopResult("none", clean)
    ELSE IF ~Head(items).obj THEN LoopResult("AttributeError", <<>>)
    ELSE IF UrlRaises(Head(items)) THEN LoopResult("TypeError", <<>>)
    ELSE LET p == Normalise(Head(items))
             uid == IdentityKey(p)
         IN IF Truthy(uid) /\ IsNew(uid, seen)
            THEN MutualLoop(Tail(items), seen \cup {uid}, Append(clean, p))
            ELSE MutualLoop(Tail(items), seen, clean)

(***************************************************************************)
(* company_people.parse_output, lines 94-121: filter, normalise, dedup     *)
(***************************************************************************)
\* lines 115-119: enforce fields on an accepted record
Enforce(p) == [p EXCEPT !.connection_degree = Str(<<"2nd">>), !.crm = TRUE]

\* a loop that deduplicates before it filters
RECURSIVE CompanyLoopDedupFirst(_, _, _)
CompanyLoopDedupFirst(items, seen, clean) ==
    IF items = <<>> THEN LoopResult("none", clean)
    ELSE IF ~Head(items).obj THEN LoopResult("AttributeError", <<>>)
    ELSE IF UrlRaises(Head(items)) THEN LoopResult("TypeError", <<>>)
    ELSE LET p == Normalise(Head(items))
             uid == IdentityKey(p)
         IN IF ~Truthy(uid) \/ ~IsNew(uid, seen)
            THEN CompanyLoopDedupFirst(Tail(items), seen, clean)
            ELSE IF ~PassesDegree(Head(items))
            THEN CompanyLoopDedupFirst(Tail(items), seen \cup {uid}, clean)
            ELSE CompanyLoopDedupFirst(Tail(items), seen \cup {uid},
                                       Append(clean, Enforce(p)))
RECURSIVE CompanyLoop(_, _, _)
CompanyLoop(items, seen, clean) ==
    IF items = <<>> THEN LoopResult("none", clean)
    ELSE IF ~Head(items).obj THEN LoopResult("AttributeError", <<>>)
    ELSE IF ~PassesDegree(Head(items)) THEN CompanyLoop(Tail(items), seen, clean)
    ELSE IF UrlRaises(Head(items)) THEN LoopResult("TypeError", <<>>)
    ELSE LET p == Normalise(Head(items))
             uid == IdentityKey(p)
         IN IF ~Truthy(uid) \/ ~IsNew(uid, seen)
            THEN CompanyLoop(Tail(items), seen, clean)
            ELSE CompanyLoop(Tail(items), seen \cup {uid}, Append(clean, Enforce(p)))

(***************************************************************************)
(* Results of the parsers.                                                 *)
(*   kind "ok"    : the returned dict                                      *)
(*   kind "error" : the returned {"error": ..., "raw": raw}                *)
(*   kind "raise" : an exception left the function (exc names it)          *)
(*   kind "none"  : nothing parsed yet                                     *)
(***************************************************************************)
Result(kind, exc, reported, count, records, error_key, raw) ==
    [kind |-> kind, exc |-> exc, reported |-> reported, count |-> count,
     records |-> records, error_key |-> error_key, raw |-> raw]

NoResult == Result("none", "none", ABSENT, 0, <<>>, FALSE, <<>>)
Raised(exc) == Result("raise", exc, ABSENT, 0, <<>>, FALSE, <<>>)

\* line 150 / line 129: the recomputed count
\* a count taken before filtering and deduplication
AcceptedCountOfCandidates(items, clean) == Len(items)
AcceptedCount(items, clean) == Len(clean)

\* mutual_connections.parse_output
MutualParseData(body, raw) ==
    IF ListRaises(body.list) THEN Raised("TypeError")
    ELSE LET r == MutualLoop(body.list.items, {}, <<>>)
         IN IF r.exc # "none" THEN Raised(r.exc)
            ELSE Result("ok", "none", body.reported,
                        AcceptedCount(body.list.items, r.clean), r.clean,
                        body.error_key, <<>>)

mutual_parse_output(raw) ==
    CASE JsonKind(raw) = "nomatch" -> Result("error", "none", ABSENT, 0, <<>>, TRUE, raw)
      [] JsonKind(raw) = "bad" -> Result("error", "none", ABSENT, 0, <<>>, TRUE, raw)
      [] JsonKind(raw) = "empty" -> MutualParseData(EmptyPayload, raw)
      [] OTHER -> MutualParseData(JsonBody(raw), raw)

\* company_people.parse_output: meta is rebuilt, so no "error" key survives;
\* total_employees_visible defaults to 0 when absent
CompanyParseData(body, raw) ==
    IF ListRaises(body.list) THEN Raised("TypeError")
    ELSE LET r == CompanyLoop(body.list.items, {}, <<>>)
         IN IF r.exc # "none" THEN Raised(r.exc)
            ELSE Result("ok", "none",
                        IF body.reported.t = "absent" THEN Num("0") ELSE body.reported,
                        AcceptedCount(body.list.items, r.clean), r.clean,
                        FALSE, <<>>)

company_parse_output(raw) ==
    CASE JsonKind(raw) = "nomatch" -> Raised("RuntimeError")
      [] JsonKind(raw) = "bad" -> Raised("RuntimeError")
      [] JsonKind(raw) = "empty" -> CompanyParseData(EmptyPayload, raw)
      [] OTHER -> CompanyParseData(JsonBody(raw), raw)

parse_output(m, raw) ==
    IF m = "mutual" THEN mutual_parse_output(raw) ELSE company_parse_output(raw)

(***************************************************************************)
(* Target URL validation (validate_linkedin_url / validate_company_url):   *)
(*   re.match(r'https?://(www\.)?linkedin\.com/<section>/[^/?#]+', url)    *)
(***************************************************************************)
HostAt(url) == IF Len(url) >= 4 /\ url[4] = "www." THEN 5 ELSE 4

MatchesTarget(url, section) ==
    /\ Len(url) >= HostAt(url) + 4
    /\ url[1] \in {"http:", "https:"} /\ url[2] = "/" /\ url[3] = "/"
    /\ url[HostAt(url)] = "linkedin.com"
    /\ url[HostAt(url) + 1] = "/"
    /\ url[HostAt(url) + 2] = section
    /\ url[HostAt(url) + 3] = "/"
    /\ url[HostAt(url) + 4] \notin Delims

SectionOf(m) == IF m = "mutual" THEN "in" ELSE "company"

\* a validation that takes a URL of either section
ValidTargetAnySection(m, url) == MatchesTarget(url, "in") \/ MatchesTarget(url, "company")
ValidTarget(m, url) == MatchesTarget(url, SectionOf(m))

TargetPool ==
    {<<"https:", "/", "/", "www.", "linkedin.com", "/", "in", "/", "bob">>,
     <<"http:", "/", "/", "linkedin.com", "/", "company", "/", "acme", "/">>,
     <<"https:", "/", "/", "www.", "linkedin.com", "/", "in", "/">>}

(***************************************************************************)
(* The session file (load_storage) and its cookies.                        *)
(***************************************************************************)
\* partitionKey: "none" (no such attribute), "str" or "obj" (a structured value)
Cookie(name, pk) == [name |-> name, partitionKey |-> pk]

Storage(exists, has_key, cookies) ==
    [exists |-> exists, has_key |-> has_key, cookies |-> cookies]

StoragePool ==
    {Storage(FALSE, FALSE, <<>>),
     Storage(TRUE, FALSE, <<>>),
     Storage(TRUE, TRUE, <<>>),
     Storage(TRUE, TRUE, <<Cookie("li_at", "none"), Cookie("JSESSIONID", "obj"),
                           Cookie("bcookie", "str")>>)}

\* lines 202-205: drop partitionKey unless it is a string
CleanCookie(c) ==
    IF c.partitionKey = "obj" THEN [c EXCEPT !.partitionKey = "none"] ELSE c

SeqRange(q) == {q[i] : i \in 1..Len(q)}

\* an injection that stops after the first cookie
CleanCookiesFirstOnly(cookies) ==
    IF cookies = <<>> THEN {} ELSE {CleanCookie(cookies[1])}
CleanCookies(cookies) == {CleanCookie(cookies[i]) : i \in 1..Len(cookies)}

(***************************************************************************)
(* The live-session check, line 214.                                       *)
(***************************************************************************)
FeedUrl == <<"https:", "/", "/", "www.", "linkedin.com", "/", "feed", "/">>

LandingPool ==
    {FeedUrl,
     <<"https:", "/", "/", "www.", "linkedin.com", "/", "login">>,
     <<"https:", "/", "/", "www.", "linkedin.com", "/", "uas", "/", "login", "?", "x">>,
     <<"https:", "/", "/", "www.", "linkedin.com", "/", "authwall", "?", "x">>,
     <<"https:", "/", "/", "www.", "linkedin.com", "/", "checkpoint", "/", "lg">>}

\* a check that knows the login pattern only
SessionDeadLoginOnly(current_url) == Contains(current_url, <<"login">>)
SessionDead(current_url) ==
    \/ Contains(current_url, <<"login">>)
    \/ Contains(current_url, <<"authwall">>)
    \/ Contains(current_url, <<"checkpoint">>)

(***************************************************************************)
(* parse_enrich_output and the merge loop, lines 155-162 and 289-298.      *)
(* An enrichment map is a function from identifiers to JSON values.        *)
(***************************************************************************)
EmptyMap == <<>>

parse_enrich_output(raw) == IF JsonKind(raw) = "ok" THEN JsonBody(raw) ELSE EmptyMap

\* experience_map.get(person.get("linkedin_id", ""))
Lookup(map, lid) ==
    IF lid.t = "str" /\ lid.s \in DOMAIN map THEN map[lid.s] ELSE NULL

\* a test that takes any truthy value for a block
WellFormedAnyTruthy(exp) == Truthy(exp)
\* exp and isinstance(exp, dict)
WellFormed(exp) == Truthy(exp) /\ exp.t = "obj"

MergeOne(map, person) ==
    [person EXCEPT !.latest_experience =
        IF WellFormed(Lookup(map, person.linkedin_id))
        THEN Lookup(map, person.linkedin_id) ELSE NULL]

MergeAll(map, records) == [i \in 1..Len(records) |-> MergeOne(map, records[i])]

Enriched(map, records) ==
    Cardinality({i \in 1..Len(records) : WellFormed(Lookup(map, records[i].linkedin_id))})

(***************************************************************************)
(* build_enrich_task, lines 97-99: p["linkedin_url"] and p["linkedin_id"]  *)
(* raise KeyError on a record that lacks the key.                          *)
(***************************************************************************)
EnrichTaskRaises(profiles) ==
    \E i \in 1..Len(profiles) :
        profiles[i].linkedin_url.t = "absent" \/ profiles[i].linkedin_id.t = "absent"

(***************************************************************************)
(* The summary loop, lines 302-305 (168-169 in company_people).            *)
(***************************************************************************)
\* exp["job_title"], exp["company"] on a truthy block
ExpRaises(person) ==
    /\ Truthy(person.latest_experience)
    /\ ~({"job_title", "company"} \subseteq SeqRange(person.latest_experience.s))

\* person['name'] raises KeyError when absent; f"{None:<35}" raises TypeError
NameRaises(person) == person.name.t \in {"absent", "null"}

SummaryRaises(m, records) ==
    \E i \in 1..Len(records) :
        \/ m = "mutual" /\ ExpRaises(records[i])
        \/ NameRaises(records[i])

(***************************************************************************)
(* Inputs: what the agent may answer.                                      *)
(***************************************************************************)
Tok(k, p) == [k |-> k, p |-> p]

SeqsUpTo(S, n) == UNION {[1..k -> S] : k \in 0..n}

ProfileUrl(id, tail) == <<"https:", "/", "/", "linkedin.com", "/", "in", "/">> \o id \o tail

Deg2nd == Str(<<"2nd">>)

\* candidate records an agent returns inside a whole run
RunEntries ==
    {Rec(Str(<<"Ann">>), Str(ProfileUrl(<<"a">>, <<"?", "x">>)), ABSENT, Deg2nd),
     Rec(Str(<<"Bob">>), Str(ProfileUrl(<<"a">>, <<"/">>)), Str(<<"zz">>), ABSENT),
     Rec(Str(<<"Cy">>), ABSENT, ABSENT, Str(<<"3rd+">>)),
     Rec(ABSENT, Str(ProfileUrl(<<"b">>, <<>>)), Str(<<"b">>), Deg2nd),
     Rec(Str(<<"Dee">>), Str(ProfileUrl(<<"b">>, <<"#", "x">>)), ABSENT, Deg2nd),
     NotObject}

\* the members beside the record list: (reported total, "error" key present)
RunMeta == {<<ABSENT, FALSE>>, <<Num("5"), FALSE>>, <<Num("5"), TRUE>>}

Wrapped(body) == <<Tok("txt", EmptyPayload), Tok("lb", EmptyPayload),
                   Tok("body", body), Tok("rb", EmptyPayload)>>

\* texts with no object, a broken object, {} and an object followed by prose
\* holding a brace
OddRaws(body) ==
    {<<Tok("txt", EmptyPayload)>>,
     <<Tok("rb", EmptyPayload), Tok("lb", EmptyPayload)>>,
     <<Tok("lb", EmptyPayload), Tok("txt", EmptyPayload), Tok("rb", EmptyPayload)>>,
     <<Tok("lb", EmptyPayload), Tok("rb", EmptyPayload)>>,
     <<Tok("lb", EmptyPayload), Tok("body", body), Tok("rb", EmptyPayload),
       Tok("txt", EmptyPayload), Tok("rb", EmptyPayload)>>}

RunRawPool ==
    {Wrapped(Payload(ListOf(q), m[1], m[2])) : q \in SeqsUpTo(RunEntries, MaxRunRecs), m \in RunMeta}
    \cup {Wrapped(Payload(NoList(t), Num("5"), FALSE)) : t \in {"absent", "null", "num"}}
    \cup OddRaws(Payload(ListOf(<<>>), ABSENT, FALSE))

FullBlock == Obj(<<"job_title", "company", "start_date", "end_date", "location">>)

EnrichMaps ==
    {EmptyMap,
     (<<"a">> :> FullBlock),
     (<<"a">> :> FullBlock) @@ (<<"b">> :> NULL),
     (<<"a">> :> Obj(<<"company">>)) @@ (<<"b">> :> FullBlock),
     (<<"a">> :> Str(<<"n/a">>)) @@ (<<"b">> :> Obj(<<>>))}

EnrichRawPool ==
    {<<Tok("txt", EmptyMap), Tok("lb", EmptyMap), Tok("body", m), Tok("rb", EmptyMap)>> :
        m \in EnrichMaps}
    \cup {<<Tok("txt", EmptyMap)>>,
          <<Tok("lb", EmptyMap), Tok("txt", EmptyMap), Tok("rb", EmptyMap)>>}

(***************************************************************************)
(* State of one run of get_mutual_connections or get_company_people.       *)
(***************************************************************************)
VARIABLES
    mode,           \* "mutual" | "company": which entry point runs
    enrich,         \* the enrich argument
    save_path,      \* whether a save path was given
    target_url,     \* profile_url / company_url
    storage_file,   \* the session file
    output_file,    \* "absent" | "previous" | "empty" | "partial" | "complete"
    pc,             \* position in the entry point
    phase,          \* 1: primary, 2: enrichment
    chosen_port,    \* phase -> port find_free_port returned (0: none yet)
    browser,        \* phase -> the browser process _launch_browser started
    handle_port,    \* phase -> port of the tuple returned to the caller (0: none)
    llm,            \* whether the ChatGoogle client exists
    agent,          \* phase -> the Agent and the endpoint it was given
    pending,        \* the exception propagating through a finally block
    raw,            \* final text of the primary agent
    raw2,           \* final text of the enrichment agent
    data,           \* the parse result, later merged
    enriched,       \* the enriched counter of the merge loop
    outcome,        \* "running" | "Done" | "Failed"
    error           \* the exception that ended the run

vars == <<mode, enrich, save_path, target_url, storage_file, output_file, pc, phase,
          chosen_port, browser, handle_port, llm, agent, pending, raw, raw2, data,
          enriched, outcome, error>>

NoBrowser == [state |-> "none", debug_port |-> 0, page |-> FALSE, headers |-> FALSE,
              cookies |-> {}, current_url |-> <<>>]
NoAgent == [state |-> "none", cdp_port |-> 0]

Init ==
    /\ mode \in {"mutual", "company"}
    /\ enrich \in BOOLEAN
    /\ mode = "company" => enrich = FALSE
    /\ save_path \in BOOLEAN
    /\ target_url \in TargetPool
    /\ storage_file \in StoragePool
    /\ output_file \in {"absent", "previous"}
    /\ pc = "validate"
    /\ phase = 1
    /\ chosen_port = [ph \in 1..2 |-> 0]
    /\ browser = [ph \in 1..2 |-> NoBrowser]
    /\ handle_port = [ph \in 1..2 |-> 0]
    /\ llm = FALSE
    /\ agent = [ph \in 1..2 |-> NoAgent]
    /\ pending = "none"
    /\ raw = <<>>
    /\ raw2 = <<>>
    /\ data = NoResult
    /\ enriched = 0
    /\ outcome = "running"
    /\ error = "none"

\* an exception leaves the entry point
Fail(exc) == /\ pc' = "failed" /\ outcome' = "Failed" /\ error' = exc

Goes(next) == /\ pc' = next /\ UNCHANGED <<outcome, error>>

\* the arguments of the run and the session file are never written
args == <<mode, enrich, save_path, target_url, storage_file>>
browsers == <<chosen_port, browser, handle_port>>
results == <<raw, raw2, data, enriched>>

(***************************************************************************)
(* Entry: validate_*_url, load_storage (lines 236-238 / 140-143).          *)
(***************************************************************************)
Validate ==
    /\ pc = "validate"
    /\ IF ValidTarget(mode, target_url) THEN Goes("load_storage") ELSE Fail("ValueError")
    /\ UNCHANGED <<args, output_file, phase, browsers, llm, agent, pending, results>>

LoadStorage ==
    /\ pc = "load_storage"
    /\ IF storage_file.exists THEN Goes("find_free_port") ELSE Fail("FileNotFoundError")
    /\ UNCHANGED <<args, output_file, phase, browsers, llm, agent, pending, results>>

(***************************************************************************)
(* _launch_browser, lines 165-222, run for the current phase.              *)
(***************************************************************************)
\* line 167: port = find_free_port()
FindFreePort ==
    /\ pc = "find_free_port"
    /\ \E p \in 1..NumPorts : chosen_port' = [chosen_port EXCEPT ![phase] = p]
    /\ Goes("launch")
    /\ UNCHANGED <<args, output_file, phase, browser, handle_port, llm, agent, pending, results>>

\* line 181: the port given as --remote-debugging-port
LaunchPortArg(ph) == chosen_port[ph]

\* lines 177-186: the browser process exists from here on
Launch ==
    /\ pc = "launch"
    /\ browser' = [browser EXCEPT ![phase] =
                      [NoBrowser EXCEPT !.state = "alive", !.debug_port = LaunchPortArg(phase)]]
    /\ Goes("new_page")
    /\ UNCHANGED <<args, output_file, phase, chosen_port, handle_port, llm, agent, pending, results>>

\* async_playwright().start() or chromium.launch raises: no browser process
LaunchRaises ==
    /\ pc = "launch"
    /\ Fail("LaunchError")
    /\ UNCHANGED <<args, output_file, phase, browsers, llm, agent, pending, results>>

\* lines 188-189
NewPage ==
    /\ pc = "new_page"
    /\ browser' = [browser EXCEPT ![phase].page = TRUE]
    /\ Goes("set_headers")
    /\ UNCHANGED <<args, output_file, phase, chosen_port, handle_port, llm, agent, pending, results>>

\* lines 191-200
SetHeaders ==
    /\ pc = "set_headers"
    /\ browser' = [browser EXCEPT ![phase].headers = TRUE]
    /\ Goes("add_cookies")
    /\ UNCHANGED <<args, output_file, phase, chosen_port, handle_port, llm, agent, pending, results>>

\* lines 202-207: storage["cookies"] raises KeyError when the key is missing
AddCookies ==
    /\ pc = "add_cookies"
    /\ IF storage_file.has_key
       THEN /\ browser' = [browser EXCEPT ![phase].cookies = CleanCookies(storage_file.cookies)]
            /\ Goes("goto")
       ELSE /\ Fail("KeyError")
            /\ UNCHANGED browser
    /\ UNCHANGED <<args, output_file, phase, chosen_port, handle_port, llm, agent, pending, results>>

\* lines 210-212: the navigation lands somewhere
Goto ==
    /\ pc = "goto"
    /\ \E u \in LandingPool : browser' = [browser EXCEPT ![phase].current_url = u]
    /\ Goes("session_check")
    /\ UNCHANGED <<args, output_file, phase, chosen_port, handle_port, llm, agent, pending, results>>

\* new_page, set_viewport_size, set_extra_http_headers, add_cookies or goto
\* (a navigation timeout) raises: nothing in _launch_browser catches it
BootstrapStepRaises ==
    /\ pc \in {"new_page", "set_headers", "add_cookies", "goto"}
    /\ Fail(IF pc = "goto" THEN "TimeoutError" ELSE "PlaywrightError")
    /\ UNCHANGED <<args, output_file, phase, browsers, llm, agent, pending, results>>

\* lines 214-222
SessionCheck ==
    /\ pc = "session_check"
    /\ IF SessionDead(browser[phase].current_url)
       THEN /\ browser' = [browser EXCEPT ![phase].state = "closed"]
            /\ Fail("SessionExpired")
            /\ UNCHANGED handle_port
       ELSE /\ handle_port' = [handle_port EXCEPT ![phase] = chosen_port[phase]]
            /\ Goes(IF phase = 1 THEN "make_llm" ELSE "build_agent")
            /\ UNCHANGED browser
    /\ UNCHANGED <<args, output_file, phase, chosen_port, llm, agent, pending, results>>

(***************************************************************************)
(* The phase body: lines 242-256, 274-287 (145-159 in company_people).     *)
(***************************************************************************)
\* line 242 / 145: between the launch and the try block
MakeLLM ==
    /\ pc = "make_llm"
    /\ llm' = TRUE
    /\ Goes("build_agent")
    /\ UNCHANGED <<args, output_file, phase, browsers, agent, pending, results>>

MakeLLMRaises ==
    /\ pc = "make_llm"
    /\ Fail("LLMError")
    /\ UNCHANGED <<args, output_file, phase, browsers, llm, agent, pending, results>>

\* lines 248 / 280 / 151: cdp_url=f"http://localhost:{port}" (port2 in phase 2)
\* an endpoint that reuses the primary phase's port
CdpPortOfFirst(ph) == handle_port[1]
CdpPort(ph) == handle_port[ph]

\* inside try: build the task, construct the Agent
BuildAgent ==
    /\ pc = "build_agent"
    /\ IF phase = 2 /\ EnrichTaskRaises(data.records)
       THEN /\ pending' = "KeyError"
            /\ Goes("finally")
            /\ UNCHANGED agent
       ELSE /\ agent' = [agent EXCEPT ![phase] = [state |-> "built", cdp_port |-> CdpPort(phase)]]
            /\ Goes("agent_run")
            /\ UNCHANGED pending
    /\ UNCHANGED <<args, output_file, phase, browsers, llm, results>>

BuildAgentRaises ==
    /\ pc = "build_agent"
    /\ pending' = "AgentInitError"
    /\ Goes("finally")
    /\ UNCHANGED <<args, output_file, phase, browsers, llm, agent, results>>

\* agent.run begins: the agent attaches to its endpoint
AgentStart ==
    /\ pc = "agent_run"
    /\ agent' = [agent EXCEPT ![phase].state = "running"]
    /\ Goes("agent_running")
    /\ UNCHANGED <<args, output_file, phase, browsers, llm, pending, results>>

\* agent.run returns its final text
AgentReturns ==
    /\ pc = "agent_running"
    /\ agent' = [agent EXCEPT ![phase].state = "returned"]
    /\ IF phase = 1
       THEN /\ \E r \in RunRawPool : raw' = r
            /\ UNCHANGED raw2
       ELSE /\ \E r \in EnrichRawPool : raw2' = r
            /\ UNCHANGED raw
    /\ Goes("finally")
    /\ UNCHANGED <<args, output_file, phase, browsers, llm, pending, data, enriched>>

AgentRaises ==
    /\ pc = "agent_running"
    /\ agent' = [agent EXCEPT ![phase].state = "raised"]
    /\ pending' = "AgentError"
    /\ Goes("finally")
    /\ UNCHANGED <<args, output_file, phase, browsers, llm, results>>

\* a finally block that does not close the browser
FinallyLeavesOpen ==
    /\ pc = "finally"
    /\ IF pending # "none"
       THEN Fail(pending)
       ELSE Goes(IF phase = 1 THEN "parse" ELSE "merge")
    /\ UNCHANGED <<args, output_file, phase, browsers, llm, agent, pending, results>>
\* finally: browser.close(); pw.stop(); then the pending exception, if any
Finally ==
    /\ pc = "finally"
    /\ browser' = [browser EXCEPT ![phase].state = "closed"]
    /\ IF pending # "none"
       THEN Fail(pending)
       ELSE Goes(IF phase = 1 THEN "parse" ELSE "merge")
    /\ UNCHANGED <<args, output_file, phase, chosen_port, handle_port, llm, agent, pending, results>>

(***************************************************************************)
(* After the primary phase: lines 258-273 (161 in company_people).         *)
(***************************************************************************)
\* line 268: if enrich and data.get("mutual_connections")
EntersEnrichment(m, e, d) == m = "mutual" /\ e /\ Len(d.records) > 0

\* line 259: if "error" in data (get_company_people has no such test)
TreatedAsError(m, d) == m = "mutual" /\ d.error_key

Parse ==
    /\ pc = "parse"
    /\ data' = parse_output(mode, raw)
    /\ IF data'.kind = "raise"
       THEN Fail(data'.exc) /\ UNCHANGED phase
       ELSE IF TreatedAsError(mode, data')
       THEN Fail("UnparseableOutput") /\ UNCHANGED phase
       ELSE IF EntersEnrichment(mode, enrich, data')
       THEN Goes("find_free_port") /\ phase' = 2
       ELSE Goes("summary") /\ UNCHANGED phase
    /\ UNCHANGED <<args, output_file, browsers, llm, agent, pending, raw, raw2, enriched>>

\* lines 289-299
Merge ==
    /\ pc = "merge"
    /\ data' = [data EXCEPT !.records = MergeAll(parse_enrich_output(raw2), data.records)]
    /\ enriched' = Enriched(parse_enrich_output(raw2), data.records)
    /\ Goes("summary")
    /\ UNCHANGED <<args, output_file, phase, browsers, llm, agent, pending, raw, raw2>>

(***************************************************************************)
(* Summary and save: lines 302-312 (163-176 in company_people).            *)
(***************************************************************************)
Summary ==
    /\ pc = "summary"
    /\ IF SummaryRaises(mode, data.records)
       THEN Fail("SummaryError")
       ELSE Goes(IF save_path THEN "open_file" ELSE "return")
    /\ UNCHANGED <<args, output_file, phase, browsers, llm, agent, pending, results>>

\* open(save_path, "w") truncates the file
OpenFile ==
    /\ pc = "open_file"
    /\ output_file' = "empty"
    /\ Goes("dump")
    /\ UNCHANGED <<args, phase, browsers, llm, agent, pending, results>>

OpenFileRaises ==
    /\ pc = "open_file"
    /\ Fail("OSError")
    /\ UNCHANGED <<args, output_file, phase, browsers, llm, agent, pending, results>>

\* json.dump(data, f, indent=2) writes the document piece by piece
Dump ==
    /\ pc = "dump"
    /\ output_file' = "complete"
    /\ Goes("return")
    /\ UNCHANGED <<args, phase, browsers, llm, agent, pending, results>>

DumpRaises ==
    /\ pc = "dump"
    /\ output_file' \in {"empty", "partial"}
    /\ Fail("OSError")
    /\ UNCHANGED <<args, phase, browsers, llm, agent, pending, results>>

Return ==
    /\ pc = "return"
    /\ pc' = "done"
    /\ outcome' = "Done"
    /\ UNCHANGED <<args, output_file, phase, browsers, llm, agent, pending, results, error>>

Next ==
    \/ Validate \/ LoadStorage
    \/ FindFreePort \/ Launch \/ LaunchRaises \/ NewPage \/ SetHeaders \/ AddCookies
    \/ Goto \/ BootstrapStepRaises \/ SessionCheck
    \/ MakeLLM \/ MakeLLMRaises \/ BuildAgent \/ BuildAgentRaises
    \/ AgentStart \/ AgentReturns \/ AgentRaises \/ Finally
    \/ Parse \/ Merge \/ Summary
    \/ OpenFile \/ OpenFileRaises \/ Dump \/ DumpRaises \/ Return

Spec == Init /\ [][Next]_vars

(***************************************************************************)
(* The parsers alone: a raw text drawn from a wider set, then parsed.      *)
(***************************************************************************)
ParseEntries ==
    {Rec(Str(<<"Ann">>), Str(ProfileUrl(<<"a">>, <<"?", "x">>)), ABSENT, Deg2nd),
     Rec(Str(<<"Bob">>), Str(ProfileUrl(<<"a">>, <<"/">>)), Str(<<"zz">>), ABSENT),
     Rec(Str(<<"a">>), ABSENT, ABSENT, Str(<<"3rd+">>)),
     Rec(ABSENT, Str(ProfileUrl(<<"b">>, <<>>)), Str(<<"b">>), Deg2nd),
     Rec(Str(<<"Dee">>), ABSENT, Str(<<"b">>), Str(<<"2ND">>)),
     Rec(ABSENT, ABSENT, ABSENT, Deg2nd),
     NotObject,
     Rec(Str(<<"Eve">>), NULL, ABSENT, Deg2nd),
     Rec(Str(<<"Ann">>), Str(<<"https:", "/", "/", "x.com", "/", "in", "/">>), ABSENT, NULL),
     Rec(Str(<<"a">>), Str(<<"/", "in", "/", "/", "in", "/", "b", "#", "y">>), ABSENT,
         Str(<<"2nd", " ", "degree">>)),
     Rec(Str(<<"Fay">>), Num("3"), Str(<<"fay">>), Str(<<"3rd+">>)),
     Rec(Str(<<>>), Str(<<"/", "in", "/", "c", "d">>), NULL, Num("2")),
     Rec(Str(<<"Gus">>), Str(<<"https:", "/", "/", "x.com", "/", "gus">>), Str(<<"b">>), Deg2nd)}

ParseMeta == {<<ABSENT, FALSE>>, <<Num("5"), TRUE>>}

ParseRawPool ==
    {Wrapped(Payload(ListOf(q), m[1], m[2])) : q \in SeqsUpTo(ParseEntries, MaxRecs), m \in ParseMeta}
    \cup {Wrapped(Payload(NoList(t), Num("5"), FALSE)) : t \in {"absent", "null", "num"}}
    \cup OddRaws(Payload(ListOf(<<>>), ABSENT, FALSE))

ParseInit ==
    /\ mode \in {"mutual", "company"}
    /\ enrich = FALSE
    /\ save_path = FALSE
    /\ target_url \in {u \in TargetPool : ValidTarget(mode, u)}
    /\ storage_file \in {f \in StoragePool : f.exists /\ f.has_key /\ f.cookies # <<>>}
    /\ output_file = "absent"
    /\ pc = "parse_only"
    /\ phase = 1
    /\ chosen_port = [ph \in 1..2 |-> 0]
    /\ browser = [ph \in 1..2 |-> NoBrowser]
    /\ handle_port = [ph \in 1..2 |-> 0]
    /\ llm = FALSE
    /\ agent = [ph \in 1..2 |-> NoAgent]
    /\ pending = "none"
    /\ raw \in ParseRawPool
    /\ raw2 = <<>>
    /\ data = NoResult
    /\ enriched = 0
    /\ outcome = "running"
    /\ error = "none"

\* data = parse_output(raw, url), called on its own
ParseOnly ==
    /\ pc = "parse_only"
    /\ data' = parse_output(mode, raw)
    /\ pc' = "parsed"
    /\ UNCHANGED <<args, output_file, phase, browsers, llm, agent, pending, raw, raw2,
                   enriched, outcome, error>>

ParseNext == ParseOnly

ParseSpec == ParseInit /\ [][ParseNext]_vars

(***************************************************************************)
(* Properties.                                                             *)
(***************************************************************************)
Phases == 1..2

\* the output path holds what it held before the run
OutputUntouched == output_file \in {"absent", "previous"}

\* a URL that matches a login / authwall / checkpoint pattern
MatchesLoginPattern(url) ==
    \E w \in {"login", "authwall", "checkpoint"} : Contains(url, <<w>>)

\* the candidate records of the primary output, as the agent wrote them
Candidates == IF JsonKind(raw) = "ok" THEN JsonBody(raw).list.items ELSE <<>>

\* C1: when a run has ended (Done or Failed), every browser process that a
\* phase obtained from a successful _launch_browser has been terminated.
C1_LaunchedBrowsersClosedAtEnd ==
    outcome # "running" =>
        \A ph \in Phases : handle_port[ph] # 0 => browser[ph].state = "closed"

\* C2: when _launch_browser fails (the run is Failed and the phase never got
\* its handle), the browser process it launched is not left alive.
C2_BootstrapFailureLeavesNoBrowser ==
    (outcome = "Failed" /\ handle_port[phase] = 0) => browser[phase].state # "alive"

\* C3 as stated: a landing URL matching a login/authwall/checkpoint pattern
\* fails the run with the session-expired error, the browser is terminated,
\* and no agent was ever started in that run and no output file written.
C3_SessionExpiredNoAgentEver ==
    /\ \A ph \in Phases :
          (MatchesLoginPattern(browser[ph].current_url)
              /\ ~(pc = "session_check" /\ phase = ph))
          => (outcome = "Failed" /\ error = "SessionExpired" /\ phase = ph)
    /\ error = "SessionExpired" =>
          /\ browser[phase].state = "closed"
          /\ \A ph \in Phases : agent[ph].state = "none"
          /\ OutputUntouched

\* C3 amended: as above, but the agents that are never started are the one of
\* the failing phase and those of later phases; the agent of an earlier
\* phase has run and ended, and its browser is terminated too.
C3_SessionExpiredNoAgentInPhase ==
    /\ \A ph \in Phases :
          (MatchesLoginPattern(browser[ph].current_url)
              /\ ~(pc = "session_check" /\ phase = ph))
          => (outcome = "Failed" /\ error = "SessionExpired" /\ phase = ph)
    /\ error = "SessionExpired" =>
          /\ browser[phase].state = "closed"
          /\ \A ph \in Phases : ph >= phase => agent[ph].state = "none"
          /\ \A ph \in Phases : agent[ph].state \notin {"built", "running"}
          /\ \A ph \in Phases : browser[ph].state # "alive"
          /\ OutputUntouched

C3_Witness ==
    /\ error = "SessionExpired"
    /\ phase = 2
    /\ agent[1].state = "returned"
    /\ Contains(browser[2].current_url, <<"checkpoint">>)

\* C4: an agent exists or runs only while its phase's browser is alive with a
\* page, every cookie of the session file injected, and a landing URL that
\* matches no login/authwall/checkpoint pattern.
C4_AgentOnlyOnVerifiedBrowser ==
    \A ph \in Phases :
        agent[ph].state \in {"built", "running"} =>
            /\ browser[ph].state = "alive"
            /\ browser[ph].page
            /\ \A i \in 1..Len(storage_file.cookies) :
                  \E c \in browser[ph].cookies : c.name = storage_file.cookies[i].name
            /\ browser[ph].current_url # <<>>
            /\ ~MatchesLoginPattern(browser[ph].current_url)

C4_Witness ==
    /\ agent[2].state = "running"
    /\ Len(storage_file.cookies) > 1

\* C5: the endpoint given to a phase's agent carries the port find_free_port
\* chose in that phase, which is the debugging port of that phase's browser.
C5_CdpPortIsPhasePort ==
    \A ph \in Phases :
        agent[ph].state # "none" =>
            /\ agent[ph].cdp_port # 0
            /\ agent[ph].cdp_port = chosen_port[ph]
            /\ agent[ph].cdp_port = browser[ph].debug_port

C5_Witness ==
    /\ agent[2].state = "running"
    /\ chosen_port[2] # chosen_port[1]
    /\ browser[1].state = "closed"

\* C6: once the primary output has been parsed, the enrichment phase has been
\* entered if and only if enrichment was requested and the output parsed into
\* at least one accepted record; otherwise no second browser, no second agent;
\* and an unparsable output ends the run Failed with the output file untouched.
C6_EnrichmentIffRequestedAndRecords ==
    data.kind # "none" =>
        /\ (phase = 2) <=> (enrich /\ data.kind = "ok" /\ Len(data.records) >= 1)
        /\ phase = 1 => (browser[2].state = "none" /\ agent[2].state = "none")
        /\ data.kind \in {"error", "raise"} => (outcome = "Failed" /\ OutputUntouched)

\* C7: whenever a parse result exists, also after the merge, its accepted
\* count equals the number of its records, and the total the agent reported
\* is the one it carries.
C7_CountIsLength ==
    data.kind = "ok" =>
        /\ data.count = Len(data.records)
        /\ (JsonKind(raw) = "ok" /\ JsonBody(raw).reported.t # "absent")
              => data.reported = JsonBody(raw).reported

C7_Witness ==
    /\ data.kind = "ok"
    /\ phase = 2 /\ pc = "summary"
    /\ Len(data.records) = 1
    /\ Len(Candidates) = 2
    /\ data.reported = Num("5")

\* C8: parse_output never raises: it returns a result or an error result
\* that carries the raw text.
C8_ParseNeverRaises ==
    pc = "parsed" =>
        /\ data.kind \in {"ok", "error"}
        /\ data.kind = "error" => data.raw = raw

\* the profile identifier of a candidate record, once its URL is normalised
IdentifierOf(p) == Normalise(p).linkedin_id

FirstWith(items, id) ==
    Min({i \in 1..Len(items) : IdentifierOf(items[i]) = id})

\* C9: the mutual-connections output holds exactly one record per profile
\* identifier of the input, namely the first candidate with that identifier,
\* and the records keep their encounter order.
C9_OnePerIdentifierFirstWins ==
    (mode = "mutual" /\ pc = "parsed" /\ data.kind = "ok") =>
        /\ \A j \in 1..Len(Candidates) :
              Truthy(IdentifierOf(Candidates[j])) =>
                  /\ Cardinality({i \in 1..Len(data.records) :
                        data.records[i].linkedin_id = IdentifierOf(Candidates[j])}) = 1
                  /\ \E i \in 1..Len(data.records) :
                        data.records[i] =
                            Normalise(Candidates[FirstWith(Candidates,
                                                           IdentifierOf(Candidates[j]))])
        /\ \E f \in [1..Len(data.records) -> 1..Len(Candidates)] :
              /\ \A i \in 1..Len(data.records) : data.records[i] = Normalise(Candidates[f[i]])
              /\ \A i \in 1..(Len(data.records) - 1) : f[i] < f[i + 1]

LowerSym(x) == IF x = "2ND" THEN "2nd" ELSE x
Lower(q) == [i \in 1..Len(q) |-> LowerSym(q[i])]

\* the degree field is a string that contains "2nd", case-insensitively
Has2nd(p) ==
    p.connection_degree.t = "str" /\ Contains(Lower(p.connection_degree.s), <<"2nd">>)

\* the degree field is absent, or its text form contains "2nd"
Has2ndOrAbsent(p) ==
    \/ p.connection_degree.t = "absent"
    \/ Contains(Lower(PyStr(p.connection_degree)), <<"2nd">>)

\* C10 as stated: every record of the company-people output comes from a
\* candidate whose connection_degree contains "2nd" (case-insensitively).
C10_OnlyDegree2nd ==
    (mode = "company" /\ pc = "parsed" /\ data.kind = "ok") =>
        \A i \in 1..Len(data.records) :
            \E j \in 1..Len(Candidates) :
                /\ data.records[i] = Enforce(Normalise(Candidates[j]))
                /\ Has2nd(Candidates[j])

\* C10 amended: every record of the company-people output comes from a
\* candidate whose connection_degree is absent or, as text, contains "2nd";
\* a null degree or another value such as "3rd+" never reaches the output.
C10_OnlyDegree2ndOrAbsent ==
    (mode = "company" /\ pc = "parsed" /\ data.kind = "ok") =>
        \A i \in 1..Len(data.records) :
            \E j \in 1..Len(Candidates) :
                /\ data.records[i] = Enforce(Normalise(Candidates[j]))
                /\ Has2ndOrAbsent(Candidates[j])

C10_Witness ==
    /\ mode = "company" /\ pc = "parsed" /\ data.kind = "ok"
    /\ Len(data.records) = 1
    /\ \E j \in 1..Len(Candidates) :
          /\ Candidates[j].connection_degree.t = "absent"
          /\ data.records[1] = Enforce(Normalise(Candidates[j]))
    /\ \E j \in 1..Len(Candidates) : Candidates[j].connection_degree = Str(<<"3rd+">>)
    /\ \E j \in 1..Len(Candidates) : Candidates[j].connection_degree = NULL

\* the merge loop has run: the enrichment agent returned and its finally
\* block and the loop are behind
Merged == phase = 2 /\ agent[2].state = "returned" /\ pc \notin {"finally", "merge"}

\* what the enrichment agent's object holds under a record's identifier
BlockFor(person) ==
    IF /\ JsonKind(raw2) = "ok"
       /\ person.linkedin_id.t = "str"
       /\ person.linkedin_id.s \in DOMAIN JsonBody(raw2)
    THEN JsonBody(raw2)[person.linkedin_id.s]
    ELSE NULL

\* a JSON object with at least one member
IsBlock(v) == v.t = "obj" /\ v.s # <<>>

\* C11: after the merge every record carries latest_experience: the block the
\* map holds under its identifier when that is a well-formed object, null
\* otherwise; enriched counts the records with a block; and a run that fails
\* in the summary does so on a record without a name or on a stored block,
\* never on a null one.
C11_MergeByIdentifier ==
    Merged =>
        /\ \A i \in 1..Len(data.records) :
              data.records[i].latest_experience =
                  IF IsBlock(BlockFor(data.records[i]))
                  THEN BlockFor(data.records[i]) ELSE NULL
        /\ enriched = Cardinality({i \in 1..Len(data.records) :
                                      data.records[i].latest_experience # NULL})
        /\ outcome = "Failed" => error \in {"SummaryError", "OSError"}
        /\ error = "SummaryError" =>
              \E i \in 1..Len(data.records) :
                  \/ data.records[i].name.t \in {"absent", "null"}
                  \/ data.records[i].latest_experience # NULL

C11_Witness ==
    /\ Merged
    /\ Len(data.records) = 2
    /\ enriched = 1
    /\ data.records[1].latest_experience = FullBlock
    /\ data.records[2].latest_experience = NULL
    /\ outcome = "Done"

\* the enrichment agent's text holds no JSON object, or one that fails to parse
EnrichmentUnparsable == JsonKind(raw2) \in {"nomatch", "bad"}

\* the records as the primary parse left them
PrimaryRecords == parse_output(mode, raw).records

\* zero enriched, every record marked null and otherwise as the primary parse
\* left it, and the file written once the run is Done with a save path
DegradedToZeroEnriched ==
    /\ enriched = 0
    /\ Len(data.records) = Len(PrimaryRecords)
    /\ \A i \in 1..Len(data.records) :
          /\ data.records[i].latest_experience = NULL
          /\ [data.records[i] EXCEPT !.latest_experience = ABSENT] = PrimaryRecords[i]
    /\ (outcome = "Done" /\ save_path) => output_file = "complete"

\* C12: when the enrichment agent's output is unparsable, the run does not
\* fail (a failure of the file write itself aside): it degrades to zero
\* enriched and goes on to Done.
C12_UnparsableEnrichmentNeverFails ==
    (Merged /\ EnrichmentUnparsable) =>
        /\ DegradedToZeroEnriched
        /\ outcome = "Failed" => error = "OSError"

\* the target URL has the shape the entry point expects
TargetOk == MatchesTarget(target_url, IF mode = "mutual" THEN "in" ELSE "company")

\* nothing of a run has happened beyond the checks of its inputs
NothingStarted ==
    /\ \A ph \in Phases :
          /\ chosen_port[ph] = 0
          /\ browser[ph] = NoBrowser
          /\ agent[ph] = NoAgent
    /\ llm = FALSE
    /\ raw = <<>> /\ data = NoResult
    /\ OutputUntouched

\* C13: a run whose target URL fails validation, or whose session file is
\* absent, never gets past the two input checks: it ends Failed (ValueError,
\* FileNotFoundError) with no browser launched, no agent started and no
\* output written; both checks complete before the first browser launch.
C13_InvalidInputsFailBeforeLaunch ==
    /\ (~TargetOk \/ ~storage_file.exists) =>
          /\ NothingStarted
          /\ pc \in {"validate", "load_storage", "failed"}
          /\ pc = "load_storage" => TargetOk
          /\ pc = "failed" =>
                /\ outcome = "Failed"
                /\ error = IF ~TargetOk THEN "ValueError" ELSE "FileNotFoundError"
    /\ error \in {"ValueError", "FileNotFoundError"} => NothingStarted
    /\ (\E ph \in Phases : chosen_port[ph] # 0 \/ browser[ph] # NoBrowser) =>
          TargetOk /\ storage_file.exists

C13_Witness ==
    /\ TargetOk /\ ~storage_file.exists
    /\ pc = "failed" /\ outcome = "Failed" /\ error = "FileNotFoundError"
    /\ NothingStarted

\* C14: the output file is never truncated or partially written; it is
\* complete only at the end of a successful run, and a Failed run leaves the
\* previous content of the output path untouched.
C14_OutputWrittenWholeOrNotAtAll ==
    /\ output_file \in {"absent", "previous", "complete"}
    /\ output_file = "complete" => pc \in {"return", "done"}
    /\ outcome = "Failed" => OutputUntouched

\* the candidate's linkedin_url is a string that holds /in/<id>
HasInSegment(c) == c.obj /\ c.linkedin_url.t = "str" /\ InMatches(c.linkedin_url.s) # {}

\* the record carries the identifier and the canonical URL read from url
IsCanonicalOf(r, url) ==
    /\ r.linkedin_id = Str(InGroup(url))
    /\ r.linkedin_url = Str(<<"https:", "/", "/", "www.", "linkedin.com", "/", "in", "/">>
                            \o InGroup(url))

\* the parser returned a result (either parser, called on its own)
Parsed == pc = "parsed" /\ data.kind = "ok"

\* C15: every output record that stems from a candidate whose linkedin_url
\* holds /in/<id> carries the identifier <id> and the canonical URL
\* https://www.linkedin.com/in/<id>, whatever identifier the agent supplied
\* and whatever surrounds the segment; a first candidate of that shape
\* (one that passes the company degree filter) is the first output record.
C15_IdentifierFromUrl ==
    Parsed =>
        /\ \A i \in 1..Len(data.records) :
              \E j \in 1..Len(Candidates) :
                  /\ Candidates[j].obj
                  /\ data.records[i].name = Candidates[j].name
                  /\ IF HasInSegment(Candidates[j])
                     THEN IsCanonicalOf(data.records[i], Candidates[j].linkedin_url.s)
                     ELSE /\ data.records[i].linkedin_url = Candidates[j].linkedin_url
                          /\ data.records[i].linkedin_id = Candidates[j].linkedin_id
        /\ ( /\ Len(Candidates) > 0
             /\ HasInSegment(Candidates[1])
             /\ mode = "company" => Has2ndOrAbsent(Candidates[1]) ) =>
                 /\ Len(data.records) > 0
                 /\ data.records[1].name = Candidates[1].name
                 /\ IsCanonicalOf(data.records[1], Candidates[1].linkedin_url.s)

\* an agent-supplied "zz" is overridden by the "a" of .../in/a/
C15_Witness ==
    /\ Parsed
    /\ \E j \in 1..Len(Candidates) :
          /\ Candidates[j].linkedin_id = Str(<<"zz">>)
          /\ Candidates[j].linkedin_url = Str(ProfileUrl(<<"a">>, <<"/">>))
    /\ \E i \in 1..Len(data.records) :
          /\ data.records[i].name = Str(<<"Bob">>)
          /\ data.records[i].linkedin_id = Str(<<"a">>)
          /\ data.records[i].linkedin_url = Str(CanonPrefix \o <<"a">>)
    /\ \E i \in 1..Len(data.records) :
          /\ data.records[i].name = Str(<<"a">>)
          /\ data.records[i].linkedin_id = Str(<<"b">>)

\* the phases whose browser process is alive
Alive == {ph \in Phases : browser[ph].state = "alive"}

\* a step launches the browser of phase ph
Launches(ph) == browser[ph].state = "none" /\ browser'[ph].state # "none"

\* C16: at most one browser process is alive at any moment; the enrichment
\* phase's launch begins only after the primary phase's browser was
\* terminated; and a phase's browser is launched at most once: once it
\* exists it is never replaced, and no launch follows a failure.
C16_OneBrowserAtATime ==
    /\ [](/\ Cardinality(Alive) <= 1
          /\ (chosen_port[2] # 0 \/ browser[2].state # "none") =>
                browser[1].state = "closed")
    /\ [][/\ \A ph \in Phases :
                /\ browser[ph].state # "none" =>
                      /\ browser'[ph].state # "none"
                      /\ browser'[ph].debug_port = browser[ph].debug_port
                /\ browser[ph].state = "closed" => browser'[ph].state = "closed"
                /\ Launches(ph) => phase = ph /\ outcome = "running"
          /\ outcome = "Failed" => UNCHANGED browser]_vars

C16_Witness ==
    /\ browser[1].state = "closed"
    /\ browser[2].state = "alive"
    /\ agent[2].state = "running"

\* the company parser returned a result
CompanyParsed == mode = "company" /\ Parsed

\* the candidate's degree is absent or, as text, holds "2nd" (case matters)
Tagged2nd(c) ==
    \/ c.connection_degree.t = "absent"
    \/ \E k \in 1..Len(PyStr(c.connection_degree)) : PyStr(c.connection_degree)[k] = "2nd"

\* the identity key of candidate j: its identifier after normalisation, if
\* non-empty, else its name
KeyOf(j) == IdentityKey(Normalise(Candidates[j]))

Keyed(j) == Truthy(KeyOf(j))

\* candidate j is the first one with its identity key
FirstOfKey(j) == Keyed(j) /\ \A k \in 1..(j - 1) : KeyOf(k) # KeyOf(j)

\* C17 as stated: the filter applies to the deduplicated records, so when
\* the first candidate with an identity key is not tagged "2nd", no record
\* with that key reaches the company-people output.
C17_FilterAfterDedup ==
    CompanyParsed =>
        \A j \in 1..Len(Candidates) :
            (FirstOfKey(j) /\ ~Tagged2nd(Candidates[j])) =>
                \A i \in 1..Len(data.records) : IdentityKey(data.records[i]) # KeyOf(j)

\* candidate j passes the filter and no earlier candidate that passes the
\* filter has its identity key
FirstTaggedOfKey(j) ==
    /\ Keyed(j) /\ Tagged2nd(Candidates[j])
    /\ \A k \in 1..(j - 1) : Tagged2nd(Candidates[k]) => KeyOf(k) # KeyOf(j)

Survivors == {j \in 1..Len(Candidates) : FirstTaggedOfKey(j)}

\* C17 amended: the company-people parser deduplicates the filtered
\* records (output = dedup(filter(input))): the output holds, in encounter
\* order, the first candidate of each identity key among those that pass the
\* degree filter, so a later duplicate tagged "2nd" is kept when the first
\* record with its key was filtered out.
C17_DedupAfterFilter ==
    CompanyParsed =>
        /\ Len(data.records) = Cardinality(Survivors)
        /\ \A j \in Survivors :
              data.records[Cardinality({k \in Survivors : k <= j})] =
                  Enforce(Normalise(Candidates[j]))

\* the first record with key "b" fails the filter, a later one with the same
\* key passes it and is the output
C17_Witness ==
    /\ CompanyParsed
    /\ Len(Candidates) >= 2
    /\ KeyOf(1) = Str(<<"b">>) /\ ~Tagged2nd(Candidates[1])
    /\ KeyOf(2) = Str(<<"b">>) /\ Tagged2nd(Candidates[2])
    /\ Len(data.records) = 1
    /\ data.records[1] = Enforce(Normalise(Candidates[2]))

\* the record's linkedin_url holds no /in/<id>
NoSegment(r) == ~(r.linkedin_url.t = "str" /\ InMatches(r.linkedin_url.s) # {})

\* C18 as stated: a record whose linkedin_url holds no /in/<id> has an
\* empty identifier in the output, whatever linkedin_id the agent supplied,
\* and is identified by its name.
C18_NoSegmentIdentifierEmpty ==
    Parsed =>
        \A i \in 1..Len(data.records) :
            NoSegment(data.records[i]) =>
                /\ ~Truthy(data.records[i].linkedin_id)
                /\ Truthy(data.records[i].name)

\* the identity key read off a record: its linkedin_id when non-empty, else
\* its name
IdOrName(r) == IF Truthy(r.linkedin_id) THEN r.linkedin_id ELSE r.name

\* C18 amended: a record whose linkedin_url holds no /in/<id> keeps the
\* linkedin_id and linkedin_url the agent supplied; its identity key is that
\* linkedin_id when it is non-empty and its name otherwise; a record with
\* neither is dropped, and no two output records share an identity key.
C18_NoSegmentKeepsAgentIdentifier ==
    Parsed =>
        /\ \A i \in 1..Len(data.records) :
              NoSegment(data.records[i]) =>
                  /\ Truthy(IdOrName(data.records[i]))
                  /\ \E j \in 1..Len(Candidates) :
                        /\ Candidates[j].obj /\ NoSegment(Candidates[j])
                        /\ data.records[i].name = Candidates[j].name
                        /\ data.records[i].linkedin_id = Candidates[j].linkedin_id
                        /\ data.records[i].linkedin_url = Candidates[j].linkedin_url
        /\ \A i, k \in 1..Len(data.records) :
              i # k => IdOrName(data.records[i]) # IdOrName(data.records[k])
        /\ ( /\ Len(Candidates) > 0
             /\ NoSegment(Candidates[1])
             /\ Truthy(Candidates[1].linkedin_id)
             /\ mode = "company" => Tagged2nd(Candidates[1]) ) =>
                 /\ Len(data.records) > 0
                 /\ data.records[1].name = Candidates[1].name
                 /\ data.records[1].linkedin_id = Candidates[1].linkedin_id
        /\ (\A j \in 1..Len(Candidates) :
                /\ NoSegment(Candidates[j])
                /\ ~Truthy(Candidates[j].linkedin_id)
                /\ ~Truthy(Candidates[j].name)) => Len(data.records) = 0

\* Gus keeps the agent's "b"; the later record whose URL yields "b" is the
\* duplicate
C18_Witness ==
    /\ Parsed
    /\ Len(Candidates) = 2
    /\ NoSegment(Candidates[1]) /\ Candidates[1].linkedin_id = Str(<<"b">>)
    /\ ~NoSegment(Candidates[2]) /\ KeyOf(2) = Str(<<"b">>)
    /\ Len(data.records) = 1
    /\ data.records[1].linkedin_id = Str(<<"b">>)
    /\ NoSegment(data.records[1])
    /\ mode = "company"

\* candidate j takes part in deduplication: it has an identity key and, in
\* the company parser, passes the degree filter
Eligible(j) == Keyed(j) /\ (mode = "company" => Tagged2nd(Candidates[j]))

\* whether candidate j is identified by its profile identifier or its name
KindOf(j) == IF Truthy(Normalise(Candidates[j]).linkedin_id) THEN "id" ELSE "name"

\* the record the parser appends for candidate j
Out(j) ==
    IF mode = "company" THEN Enforce(Normalise(Candidates[j])) ELSE Normalise(Candidates[j])

\* C19: a record is discarded by deduplication only when an earlier record
\* has the same identity of the same kind; a name that equals another
\* record's profile identifier (or the reverse) discards nothing. So every
\* record that is the first of its kind and value is in the output.
C19_DiscardOnlyOnSameKind ==
    Parsed =>
        \A j \in 1..Len(Candidates) :
            ( /\ Eligible(j)
              /\ \A k \in 1..(j - 1) :
                    Eligible(k) => ~(KindOf(k) = KindOf(j) /\ KeyOf(k) = KeyOf(j)) ) =>
                \E i \in 1..Len(data.records) : data.records[i] = Out(j)

\* C20: once the enrichment phase's session is verified, the batch task is
\* built for every accepted record set and the agent is constructed and
\* started; only a failure of the Agent constructor itself can stand in the
\* way, never the shape of an accepted record.
C20_EnrichTaskAlwaysBuilt ==
    (phase = 2 /\ handle_port[2] # 0 /\ pc # "build_agent") =>
        \/ agent[2].state # "none"
        \/ pending = "AgentInitError"

\* the primary output parsed and every phase of the run is behind: the run
\* stands at its summary loop
AtSummary == pc = "summary" /\ data.kind = "ok"

\* C21: once the primary output has parsed and any enrichment phase has
\* ended, no step can fail the run (a failure of the file write itself
\* aside): the summary step never ends the run Failed, for every accepted
\* record set and every enrichment map, and a run that is Done with a save
\* path has written the whole file.
C21_NoFailureAfterMerging ==
    /\ []((outcome = "Done" /\ save_path) => output_file = "complete")
    /\ [][AtSummary => outcome' # "Failed"]_vars

====
